---- MODULE Spec2Model ----
(***************************************************************************)
(* Model of the auth-service token lifecycle: Google OAuth callback,       *)
(* user reconciliation, access-token issuance/validation and rotating      *)
(* refresh tokens, as implemented by backend/internal/auth/service.go,     *)
(* backend/internal/handlers, backend/internal/middleware and pkg/jwt.     *)
(*                                                                         *)
(* Every SQL statement is one atomic step; a request handler that issues   *)
(* several statements is a sequence of steps of one worker, so that        *)
(* handlers of different requests interleave at statement boundaries.      *)
(* Time is counted in whole seconds (the precision of JWT numeric dates).  *)
(***************************************************************************)
EXTENDS Integers, Sequences, FiniteSets, TLC

(* ------------------------------ bounds --------------------------------- *)
MaxWorkers == 2
MaxRows == 4
MaxTime == 2
MaxFlows == 1
MaxCalls == 4
MaxMinted == 3
MaxListed == 4

\* the width of Go's int in the model (64 in the builds of the service): the
\* values of int are -2^(IntBits-1) .. 2^(IntBits-1) - 1
IntBits == 16

(* --------------------------- configuration ----------------------------- *)
\* cfg.JWTAccessTokenExpiry and cfg.JWTRefreshTokenExpiry, in seconds
\* (scaled down from the defaults 15m and 168h).
JWTAccessTokenExpiry == 1
JWTRefreshTokenExpiry == 2

\* cfg.AllowedOrigins and cfg.AdminEmails; strings that are inspected by
\* prefix are sequences of characters.
AllowedOrigins == << <<"a">>, <<"b">> >>
AdminEmails == << "a@x.com" >>

\* Key pairs on disk: a private key k verifies against the public key k.
Keys == {"k1", "k2"}

(* ------------------------------ domains -------------------------------- *)
Workers == 1..MaxWorkers
NULL == -1
NoCookie == 0
Names == {"n1", "n2"}
RoleUser == "user"
RoleAdmin == "admin"

RedirectInputs == { <<>>, <<"a">>, <<"a", "/", "x">>, <<"a", "e">> }

\* the profiles of the Google accounts that sign in
GoogleUserInfos ==
    { [ID |-> "g1", Email |-> "a@x.com", Name |-> n] : n \in Names } \cup
    { [ID |-> "g2", Email |-> "b@x.com", Name |-> n] : n \in Names } \cup
    { [ID |-> "g3", Email |-> "a@x.com", Name |-> n] : n \in Names }

\* the rows the database has room for, over the tables users and refresh_tokens
RoomLeft(usersTable, tokensTable) == Len(usersTable) + Len(tokensTable) < MaxRows

NoUser == [ID |-> 0, Email |-> "", Name |-> "", Role |-> "", IsActive |-> FALSE]
NoInfo == [ID |-> "", Email |-> "", Name |-> ""]
NoToken == [sub |-> 0, email |-> "", name |-> "", role |-> "", iss |-> "",
            iat |-> 0, exp |-> 0, alg |-> "none", sig |-> ""]

VARIABLES
    env,             \* what the specification lets the surroundings do (constant)
    cfg,             \* the loaded key pair: [JWTPrivateKey, JWTPublicKey]
    now,             \* wall clock, seconds
    users,           \* table users: sequence of rows, id = index
    refresh_tokens,  \* table refresh_tokens: sequence of rows, id = index
    auth_audit_log,  \* table auth_audit_log: sequence of rows
    issued,          \* token pairs handed to clients, issued[i] goes with row i
    flows,           \* responses of GoogleLogin: the state and redirect cookies set
    pc,              \* per worker: the statement its handler executes next
    local,           \* per worker: the handler's local variables
    resp,            \* the response the last step sent, NoResp if it sent none
    client           \* the web client: stored token, requests under way, page

serverVars == <<env, cfg, now, users, refresh_tokens, auth_audit_log, issued,
                flows, pc, local, resp>>

vars == <<env, cfg, now, users, refresh_tokens, auth_audit_log, issued, flows,
          pc, local, resp, client>>

(* --------------------------- pkg/jwt ----------------------------------- *)
RSAMethods == {"RS256", "RS384", "RS512"}

\* variant: the expiry claim is the issue time, the TTL is forgotten
GenerateAccessToken_NoTTL(userID, email, name, role, privateKey, expiry, t) ==
    [sub |-> userID, email |-> email, name |-> name, role |-> role,
     iss |-> "auth-service", iat |-> t, exp |-> t,
     alg |-> "RS256", sig |-> privateKey]

GenerateAccessToken(userID, email, name, role, privateKey, expiry, t) ==
    [sub |-> userID, email |-> email, name |-> name, role |-> role,
     iss |-> "auth-service", iat |-> t, exp |-> t + expiry,
     alg |-> "RS256", sig |-> privateKey]

\* variant: validation also looks the subject up and wants it active
ValidateAccessToken_ReadsUsers(tok, publicKey, t) ==
    /\ tok.alg \in RSAMethods
    /\ tok.sig = publicKey
    /\ t < tok.exp
    /\ tok.sub \in 1..Len(users)
    /\ users[tok.sub].is_active

\* variant: the key function returns the key whatever the signing method is
ValidateAccessToken_AnyMethod(tok, publicKey, t) ==
    /\ tok.sig = publicKey
    /\ t < tok.exp

\* variant: the expiry claim is not looked at
ValidateAccessToken_NoExpiry(tok, publicKey, t) ==
    /\ tok.alg \in RSAMethods
    /\ tok.sig = publicKey

\* jwt.ParseWithClaims: the key function accepts RSA methods only, the
\* signature must verify under publicKey, and the expiry must be after t.
ValidateAccessToken(tok, publicKey, t) ==
    /\ tok.alg \in RSAMethods
    /\ tok.sig = publicKey
    /\ t < tok.exp

\* bcrypt: the stored value is a one-way image of the raw token; the images
\* lie outside the range of the raw values (1..MaxRows + 1)
HashRefreshToken(token) == token + MaxRows + 1

\* bcrypt.CompareHashAndPassword: hashes the presented token again
CompareRefreshToken(hash, token) == hash = HashRefreshToken(token)

(* --------------------------- SQL helpers ------------------------------- *)
\* variant: a row is still valid in the second of its expiry
ValidTokenRows_AtExpiry ==
    { i \in 1..Len(refresh_tokens) :
        /\ refresh_tokens[i].revoked_at = NULL
        /\ refresh_tokens[i].expires_at >= now }

\* SELECT ... FROM refresh_tokens WHERE revoked_at IS NULL AND expires_at > NOW()
ValidTokenRows ==
    { i \in 1..Len(refresh_tokens) :
        /\ refresh_tokens[i].revoked_at = NULL
        /\ refresh_tokens[i].expires_at > now }

\* the scan loop: the rows of a result set whose hash matches the presented token
Matching(rows, refreshToken) ==
    { i \in rows : CompareRefreshToken(refresh_tokens[i].token_hash, refreshToken) }

\* row of the table (valid or not) that carries the presented raw token, 0 if none
RowOf(refreshToken) ==
    IF Matching(1..Len(refresh_tokens), refreshToken) = {} THEN 0
    ELSE CHOOSE i \in Matching(1..Len(refresh_tokens), refreshToken) : TRUE

\* the pairs a response has carried to a client: all that were issued but
\* those of a login that has not yet sent its redirect
Handed ==
    { i \in 1..Len(issued) :
        \A w \in Workers : ~(pc[w] = "cb_log" /\ local[w].tokens = i) }

\* raw values a client can present: every raw token handed out so far, and a
\* value that was never issued
UnknownRaw == MaxRows + 1
Presentable == {issued[i].refresh : i \in Handed} \cup {UnknownRaw}

NoLocal == [raw |-> 0, tokenID |-> 0, userID |-> 0, user |-> NoUser,
            info |-> NoInfo, redirectURI |-> <<>>, tokens |-> 0,
            scanAt |-> 0, seenRevoked |-> NULL, seenExpires |-> NULL,
            replay |-> FALSE, ownerOk |-> FALSE, state |-> 0, stateOk |-> FALSE,
            found |-> FALSE, fault |-> FALSE]

NoPair == [access |-> NoToken, refresh |-> 0]

NoHeader == [scheme |-> "", token |-> NoToken]

\* what ListUsers computed and answered: the two parameters as parsed, the
\* OFFSET of its query, and the fields of ListUsersResponse (Users: the ids
\* of the rows)
NoList == [page_in |-> 0, page_size_in |-> 0, offset |-> 0, Users |-> <<>>,
           Total |-> 0, Page |-> 0, PageSize |-> 0, TotalPages |-> 0]

NoResp == [op |-> "none", status |-> 0, err |-> "", raw |-> 0,
           access |-> NoToken, refresh |-> 0, location |-> <<>>,
           replay |-> FALSE, ownerOk |-> FALSE, scanAt |-> 0,
           seenRevoked |-> NULL, seenExpires |-> NULL, matched |-> 0,
           hdr |-> NoHeader, passed |-> FALSE, ownerActive |-> FALSE,
           fault |-> FALSE, redirect_uri |-> <<>>, list |-> NoList]

\* the web client right after the page was loaded: the access token of the
\* login in sessionStorage (tokens are numbered as the server mints them,
\* 0: none stored), no request under way (the requests under way are the
\* axios calls whose promise is not settled, innermost last)
NoClient == [access_token |-> 1, minted |-> 1, calls |-> <<>>,
             settled |-> "none", last |-> "", status |-> 0,
             location |-> "/app"]

\* the surroundings a specification considers: the names Google profiles
\* carry, how many Google accounts sign in, whether the insert into
\* auth_audit_log can fail, the oauth_state and oauth_redirect values clients
\* send, the protected routes they call, the kinds of request that are
\* served while another request is under way, the tokens attackers forge,
\* the redirect_uri values logins start with, the Google accounts that sign
\* in, the names UpdateUser sets, and the ADMIN_EMAILS of later starts
TokenEnv(accounts, routes, overlap) ==
    [names |-> {"n1"}, accounts |-> accounts, auditFaults |-> FALSE,
     states |-> {0, 1}, redirects |-> {<<>>, <<"a">>},
     routes |-> routes,
     overlap |-> overlap,
     forged |-> {},
     logins |-> {<<"a", "e">>},
     ids |-> {"g1", "g2"},
     edits |-> {"n1"},
     privateFile |-> "k1", publicFile |-> "k1",
     adminLists |-> {AdminEmails}]

\* tokens an attacker can make without the service's private key: signed
\* with a key pair of his own, "signed" with HMAC under a public key of the
\* service as the secret, or not signed at all; all of them claim to be the
\* first user, as admin, and do not expire within the time considered
AttackerKey == "kx"
ForgedTokens ==
    { [sub |-> 1, email |-> "a@x.com", name |-> "n1", role |-> RoleAdmin,
       iss |-> "auth-service", iat |-> 0, exp |-> MaxTime + 1,
       alg |-> f[1], sig |-> f[2]] :
      f \in {<<"RS256", AttackerKey>>, <<"none", "">>}
             \cup ({"HS256"} \X Keys) }

\* the clients of the validation: one account, its tokens and forged ones
JwtEnv ==
    [TokenEnv(1, {"me", "deactivate"}, {}) EXCEPT
        !.forged = ForgedTokens, !.states = {1}, !.redirects = {<<"a">>}]

\* the key files JWT_PRIVATE_KEY_PATH and JWT_PUBLIC_KEY_PATH name are read
\* one after the other; each of them holds a key of some pair
LoadedKeys ==
    [JWTPrivateKey : Keys, JWTPublicKey : Keys, AdminEmails : {AdminEmails},
     up : {TRUE}, err : {""}]

\* what a key file can hold: the key of a pair in a form the loader parses,
\* nothing (no file), or bytes the loader does not parse
KeyFiles == Keys \cup {"missing", "corrupt"}

\* the process before Load has run, or after main gave up
NotLoaded ==
    [JWTPrivateKey |-> "", JWTPublicKey |-> "", AdminEmails |-> <<>>,
     up |-> FALSE, err |-> ""]

\* variant: a public key that does not load is left nil
loadOrGenerateKeys_Lenient(privateFile, publicFile) ==
    IF privateFile \in Keys
    THEN <<privateFile, IF publicFile \in Keys THEN publicFile ELSE "">>
    ELSE <<>>

\* the two keys, or <<>> for the error of generateAndSaveKeys
loadOrGenerateKeys(privateFile, publicFile) ==
    IF privateFile \in Keys /\ publicFile \in Keys
    THEN <<privateFile, publicFile>>
    ELSE <<>>

\* config.Load and the check of its error in main: the configuration the
\* server runs with, or the process that log.Fatalf ended
Load(e, admins) ==
    LET keys == loadOrGenerateKeys(e.privateFile, e.publicFile) IN
    IF keys = <<>>
    THEN [NotLoaded EXCEPT !.err = "failed to load RSA keys"]
    ELSE [JWTPrivateKey |-> keys[1], JWTPublicKey |-> keys[2],
          AdminEmails |-> admins, up |-> TRUE, err |-> ""]

\* the service right after start-up, whatever configuration it loaded
Started ==
    /\ now = 0
    /\ users = <<>>
    /\ refresh_tokens = <<>>
    /\ auth_audit_log = <<>>
    /\ issued = <<>>
    /\ flows = <<>>
    /\ pc = [w \in Workers |-> "idle"]
    /\ local = [w \in Workers |-> NoLocal]
    /\ resp = NoResp
    /\ client = NoClient

\* the service started with the two files of one key pair
Construct ==
    /\ cfg = [JWTPrivateKey |-> "k1", JWTPublicKey |-> "k1",
              AdminEmails |-> AdminEmails, up |-> TRUE, err |-> ""]
    /\ Started

\* one account; refreshes and calls of protected routes overlap
Init ==
    /\ env = TokenEnv(1, {"activate", "deactivate"}, {"refresh", "protected"})
    /\ Construct

\* two accounts; requests are served one at a time
SeqInit ==
    /\ env = TokenEnv(2, {"me", "delete", "activate", "deactivate"}, {})
    /\ Construct

\* any pair of key files; one account; clients that also present forged tokens
JwtInit ==
    /\ cfg \in LoadedKeys
    /\ env = [JwtEnv EXCEPT !.privateFile = cfg.JWTPrivateKey,
                            !.publicFile = cfg.JWTPublicKey]
    /\ Started

\* values a client can send as the oauth_state cookie and the state parameter:
\* a state some GoogleLogin response carried, or one it made up (0: absent)
StateInputs == 0..(MaxFlows + 1)

\* sign-ins: clients start flows with the default and with a refused
\* redirect_uri, and come back with the state of a flow (1..MaxFlows), with
\* one they made up, or with none
OAuthEnv ==
    [TokenEnv(1, {"me"}, {}) EXCEPT !.logins = {<<>>, <<"a", "e">>},
                                    !.states = StateInputs]

OAuthInit ==
    /\ env = OAuthEnv
    /\ Construct

\* roles: two accounts sign in again and again, users are renamed through
\* UpdateUser, and the service is restarted with another ADMIN_EMAILS
RoleEnv ==
    [TokenEnv(2, {"update"}, {}) EXCEPT
        !.edits = {"n2"}, !.adminLists = {<<>>, AdminEmails}]

RoleInit ==
    /\ env = RoleEnv
    /\ Construct

\* accounts: three Google accounts, two of them with one email, sign in,
\* also at the same time, and users are deleted
UserEnv ==
    [TokenEnv(2, {"delete"}, {"callback"}) EXCEPT !.ids = {"g1", "g2", "g3"}]

UserInit ==
    /\ env = UserEnv
    /\ Construct

\* deletion: one account signs in while calls of DeleteUser are served
DeleteEnv == TokenEnv(1, {"delete"}, {"callback", "protected"})

DeleteInit ==
    /\ env = DeleteEnv
    /\ Construct

\* redirect targets: logins start with every kind of redirect_uri, and
\* callbacks come back with the oauth_redirect cookie of a login or with one
\* the client made up
LoginEnv ==
    [TokenEnv(1, {"me"}, {}) EXCEPT
        !.logins = RedirectInputs \cup { <<"b">>, <<"c", "/", "a">> },
        !.states = {1},
        !.redirects = { <<"a">>, <<"a", "/", "x">>, <<"b">>, <<"a", "e">> }]

LoginInit ==
    /\ env = LoginEnv
    /\ Construct

\* logout against refresh: one account; refreshes and logouts overlap
LogoutEnv == TokenEnv(1, {"me"}, {"refresh", "logout"})

LogoutInit ==
    /\ env = LogoutEnv
    /\ Construct

\* start-up: the process is started with key files of any content
StartEnvs ==
    { [TokenEnv(1, {"me"}, {}) EXCEPT !.privateFile = a, !.publicFile = b] :
        a \in KeyFiles, b \in KeyFiles }

StartInit ==
    /\ env \in StartEnvs
    /\ cfg = NotLoaded
    /\ Started

Tick ==
    /\ resp = NoResp   \* no response waits to be written
    /\ now < MaxTime
    /\ now' = now + 1
    /\ resp' = NoResp
    /\ UNCHANGED <<client, env, cfg, users, refresh_tokens, auth_audit_log, issued, flows,
                   pc, local>>

(* ---------------- auth.Service.GenerateTokens -------------------------- *)
\* GenerateRefreshToken: 32 random bytes, a value no earlier call returned
GenerateRefreshToken == Len(refresh_tokens) + 1

\* The pair GenerateTokens builds for `user` before it stores the hash.
TokenPair(user) ==
    [access |-> GenerateAccessToken(user.ID, user.Email, user.Name, user.Role,
                                    cfg.JWTPrivateKey, JWTAccessTokenExpiry, now),
     refresh |-> GenerateRefreshToken]

\* variant: the row holds the raw token itself
InsertRefreshToken_Raw(userID, refreshToken) ==
    refresh_tokens' = Append(refresh_tokens,
        [user_id |-> userID,
         token_hash |-> refreshToken,
         expires_at |-> now + JWTRefreshTokenExpiry,
         revoked_at |-> NULL])

\* variant: the row expires with the access token
InsertRefreshToken_AccessTTL(userID, refreshToken) ==
    refresh_tokens' = Append(refresh_tokens,
        [user_id |-> userID,
         token_hash |-> HashRefreshToken(refreshToken),
         expires_at |-> now + JWTAccessTokenExpiry,
         revoked_at |-> NULL])

\* INSERT INTO refresh_tokens (user_id, token_hash, expires_at)
InsertRefreshToken(userID, refreshToken) ==
    refresh_tokens' = Append(refresh_tokens,
        [user_id |-> userID,
         token_hash |-> HashRefreshToken(refreshToken),
         expires_at |-> now + JWTRefreshTokenExpiry,
         revoked_at |-> NULL])

\* The successful path of GenerateTokens: one row inserted, the pair returned
\* (`parent` records which row was redeemed for it, 0 at login).
GenerateTokens(user, parent) ==
    /\ RoomLeft(users, refresh_tokens)
    /\ InsertRefreshToken(user.ID, TokenPair(user).refresh)
    /\ issued' = Append(issued, [access |-> TokenPair(user).access,
                                 refresh |-> TokenPair(user).refresh,
                                 parent |-> parent])

\* variant: the pair signed before the insert is returned all the same
StoreFailedPair_Signed(user) == TokenPair(user)

\* what GenerateTokens returns next to its error when the insert fails
StoreFailedPair(user) == NoPair

(* ---------------- request bookkeeping ---------------------------------- *)
\* the server takes a step only after the response of the step before it was
\* written to the client
Sent == resp = NoResp

\* an arriving request is served by a free worker; workers are
\* interchangeable, so it is the lowest-numbered one
Free(w) ==
    /\ pc[w] = "idle"
    /\ \A v \in Workers : v < w => pc[v] # "idle"

\* the kind of request a worker is serving
Serving(w) ==
    CASE pc[w] \in {"rf_revoke", "rf_user", "rf_issue"} -> "refresh"
      [] pc[w] \in {"lo_revoke"} -> "logout"
      [] pc[w] \in {"cb_insert", "cb_update", "cb_issue", "cb_log"} -> "callback"
      [] OTHER -> "none"

\* a request of kind `op` is taken up now: no handler is under way, or the
\* specification lets `op` and the handlers under way overlap
Admit(op) ==
    /\ cfg.up
    /\ Sent
    /\ \A w \in Workers :
          pc[w] # "idle" => op \in env.overlap /\ Serving(w) \in env.overlap

Finish(w, r) ==
    /\ pc' = [pc EXCEPT ![w] = "idle"]
    /\ local' = [local EXCEPT ![w] = NoLocal]
    /\ resp' = r

Goto(w, label, l) ==
    /\ pc' = [pc EXCEPT ![w] = label]
    /\ local' = [local EXCEPT ![w] = l]
    /\ resp' = NoResp

\* what the table says about the presented raw token at the time of a scan,
\* whether or not the row passes the WHERE clause (history, for the checks)
Seen(refreshToken) ==
    LET r == RowOf(refreshToken) IN
    [raw |-> refreshToken,
     scanAt |-> now,
     seenRevoked |-> IF r = 0 THEN NULL ELSE refresh_tokens[r].revoked_at,
     seenExpires |-> IF r = 0 THEN NULL ELSE refresh_tokens[r].expires_at,
     replay |-> r # 0 /\ \E j \in 1..Len(issued) : issued[j].parent = r]

RefreshResp(l, status, err, pair) ==
    [NoResp EXCEPT !.op = "refresh", !.status = status, !.err = err,
                   !.raw = l.raw, !.matched = l.tokenID,
                   !.access = pair.access, !.refresh = pair.refresh,
                   !.replay = l.replay, !.ownerOk = l.ownerOk,
                   !.scanAt = l.scanAt, !.seenRevoked = l.seenRevoked,
                   !.seenExpires = l.seenExpires]

\* the response of a request one of whose storage calls failed (history,
\* for the checks)
Failed(r) == [r EXCEPT !.fault = TRUE]

(* ---------------- Handler.RefreshToken / Service.RefreshAccessToken ---- *)
ErrQuery == "failed to query refresh tokens"
ErrInvalid == "invalid or expired refresh token"
ErrRevoke == "failed to revoke old token"
ErrUser == "user not found or inactive"
ErrStore == "failed to store refresh token"

\* variant: the scan also reads rows that are already revoked
RefreshCandidates_IgnoresRevoked ==
    { i \in 1..Len(refresh_tokens) : refresh_tokens[i].expires_at > now }

\* the rows the scan of RefreshAccessToken compares the presented token with
RefreshCandidates == ValidTokenRows

\* cookie lookup and the scan query with its compare loop
RefreshToken(w) ==
    /\ Free(w)
    /\ Admit("refresh")
    /\ UNCHANGED <<client, env, cfg, now, users, refresh_tokens, auth_audit_log, issued,
                   flows>>
    /\ \E cookie \in Presentable \cup {NoCookie} :
       IF cookie = NoCookie
         THEN Finish(w, [NoResp EXCEPT !.op = "refresh", !.status = 401,
                                       !.err = "Refresh token not found"])
         ELSE LET s == Seen(cookie)
                  l == [NoLocal EXCEPT !.raw = cookie, !.scanAt = s.scanAt,
                                       !.seenRevoked = s.seenRevoked,
                                       !.seenExpires = s.seenExpires,
                                       !.replay = s.replay]
                  m == Matching(RefreshCandidates, cookie)
              IN \/ Finish(w, Failed(RefreshResp(l, 401, ErrQuery, NoPair)))
                 \/ /\ m = {}
                    /\ Finish(w, RefreshResp(l, 401, ErrInvalid, NoPair))
                 \* rows.Next() ends early on a read error and rows.Err() is
                 \* not consulted: the loop leaves tokenRecord nil
                 \/ /\ m # {}
                    /\ Finish(w, Failed(RefreshResp(l, 401, ErrInvalid, NoPair)))
                 \/ /\ m # {}
                    /\ LET id == CHOOSE i \in m : TRUE
                       IN Goto(w, "rf_revoke",
                               [l EXCEPT !.tokenID = id,
                                         !.userID = refresh_tokens[id].user_id])

\* variant: the update also gives the row a new expiry
RevokeById_Renews(id) ==
    refresh_tokens' = [refresh_tokens EXCEPT
                         ![id].revoked_at = now,
                         ![id].expires_at = now + JWTRefreshTokenExpiry + 1]

\* variant: the update revokes every record of the owner
RevokeById_AllOfUser(id) ==
    refresh_tokens' =
        [i \in 1..Len(refresh_tokens) |->
            IF refresh_tokens[i].user_id = refresh_tokens[id].user_id
            THEN [refresh_tokens[i] EXCEPT !.revoked_at = now]
            ELSE refresh_tokens[i]]

\* variant: the update is left out
RevokeById_Skipped(id) == refresh_tokens' = refresh_tokens

\* UPDATE refresh_tokens SET revoked_at = NOW() WHERE id = $1
RevokeById(id) ==
    refresh_tokens' = [refresh_tokens EXCEPT ![id].revoked_at = now]

RefreshRevoke(w) ==
    /\ Sent
    /\ pc[w] = "rf_revoke"
    /\ UNCHANGED <<client, env, cfg, now, users, auth_audit_log, issued, flows>>
    /\ \/ /\ UNCHANGED refresh_tokens
          /\ Finish(w, Failed(RefreshResp(local[w], 401, ErrRevoke, NoPair)))
       \/ /\ RevokeById(local[w].tokenID)
          /\ Goto(w, "rf_user", local[w])

\* variant: the lookup selects the owner whatever its flags are
ActiveUserRows_AnyUser(id) == { u \in 1..Len(users) : u = id }

\* SELECT ... FROM users WHERE id = $1 AND is_active = true AND deleted_at IS NULL
ActiveUserRows(id) ==
    { u \in 1..Len(users) :
        u = id /\ users[u].is_active /\ users[u].deleted_at = NULL }

UserOf(u) ==
    [ID |-> u, Email |-> users[u].email, Name |-> users[u].name,
     Role |-> users[u].role, IsActive |-> users[u].is_active]

RefreshGetUser(w) ==
    /\ Sent
    /\ pc[w] = "rf_user"
    /\ UNCHANGED <<client, env, cfg, now, users, refresh_tokens, auth_audit_log, issued,
                   flows>>
    /\ LET id == local[w].userID
           ok == id \in 1..Len(users) /\ users[id].is_active
                 /\ users[id].deleted_at = NULL
           l == [local[w] EXCEPT !.ownerOk = ok]
       IN \/ Finish(w, Failed(RefreshResp(l, 401, ErrUser, NoPair)))
          \/ /\ ActiveUserRows(id) = {}
             /\ Finish(w, RefreshResp(l, 401, ErrUser, NoPair))
          \/ /\ ActiveUserRows(id) # {}
             /\ Goto(w, "rf_issue", [l EXCEPT !.user = UserOf(id)])

RefreshIssue(w) ==
    /\ Sent
    /\ pc[w] = "rf_issue"
    /\ UNCHANGED <<client, env, cfg, now, users, auth_audit_log, flows>>
    /\ \/ /\ UNCHANGED <<refresh_tokens, issued>>
          /\ Finish(w, Failed(RefreshResp(local[w], 401, ErrStore,
                                          StoreFailedPair(local[w].user))))
       \/ /\ GenerateTokens(local[w].user, local[w].tokenID)
          /\ Finish(w, RefreshResp(local[w], 200, "", TokenPair(local[w].user)))

(* ---------------- Handler.Logout / Service.RevokeRefreshToken ---------- *)
\* routes registered inside the AuthMiddleware group of main.go; only their
\* handlers see a user id in the request context
ProtectedRoutes == {"me", "list", "get", "update", "delete", "activate",
                    "deactivate"}

HasUserContext(route) == route \in ProtectedRoutes

\* variant: the scan of Logout reads every row of the table
RevokeCandidates_AnyRow == 1..Len(refresh_tokens)

\* the rows the scan of RevokeRefreshToken compares the presented token with
RevokeCandidates == ValidTokenRows

LogoutResp(l) ==
    [NoResp EXCEPT !.op = "logout", !.status = 200, !.raw = l.raw,
                   !.matched = l.tokenID, !.scanAt = l.scanAt,
                   !.seenRevoked = l.seenRevoked,
                   !.seenExpires = l.seenExpires, !.replay = l.replay,
                   !.fault = l.fault]

\* LogAuthEvent: INSERT INTO auth_audit_log; the result of Exec is dropped
LogAuthEvent(userID, action) ==
    \/ auth_audit_log' = Append(auth_audit_log,
                                [user_id |-> userID, action |-> action])
    \/ /\ env.auditFaults
       /\ UNCHANGED auth_audit_log

\* the part of Logout after the call of RevokeRefreshToken
LogoutTail(w, l) ==
    /\ IF HasUserContext("logout")
       THEN LogAuthEvent(l.userID, "LOGOUT")
       ELSE UNCHANGED auth_audit_log
    /\ Finish(w, LogoutResp(l))

Logout(w) ==
    /\ Free(w)
    /\ Admit("logout")
    /\ UNCHANGED <<client, env, cfg, now, users, refresh_tokens, issued, flows>>
    /\ \E cookie \in Presentable \cup {NoCookie} :
       IF cookie = NoCookie
         THEN LogoutTail(w, NoLocal)
         ELSE LET s == Seen(cookie)
                  l == [NoLocal EXCEPT !.raw = cookie, !.scanAt = s.scanAt,
                                       !.seenRevoked = s.seenRevoked,
                                       !.seenExpires = s.seenExpires,
                                       !.replay = s.replay]
                  m == Matching(RevokeCandidates, cookie)
              IN \/ LogoutTail(w, [l EXCEPT !.fault = TRUE])
                 \/ /\ m = {}
                    /\ LogoutTail(w, l)
                 \/ /\ m # {}
                    /\ UNCHANGED auth_audit_log
                    /\ Goto(w, "lo_revoke",
                            [l EXCEPT !.tokenID = CHOOSE i \in m : TRUE])

LogoutRevoke(w) ==
    /\ Sent
    /\ pc[w] = "lo_revoke"
    /\ UNCHANGED <<client, env, cfg, now, users, issued, flows>>
    /\ \/ /\ UNCHANGED refresh_tokens
          /\ LogoutTail(w, [local[w] EXCEPT !.fault = TRUE])
       \/ /\ RevokeById(local[w].tokenID)
          /\ LogoutTail(w, local[w])

(* ---------------- Handler.GoogleLogin ---------------------------------- *)
HasPrefix(s, prefix) ==
    /\ Len(s) >= Len(prefix)
    /\ SubSeq(s, 1, Len(prefix)) = prefix

\* variant: an allowed origin as a bare prefix is enough
ValidRedirect_BarePrefix(redirectURI) ==
    \E i \in 1..Len(AllowedOrigins) :
        HasPrefix(redirectURI, AllowedOrigins[i])

ValidRedirect(redirectURI) ==
    \E i \in 1..Len(AllowedOrigins) :
        \/ redirectURI = AllowedOrigins[i]
        \/ HasPrefix(redirectURI, AllowedOrigins[i] \o <<"/">>)

\* the request carries the redirect_uri parameter; the state is 16 random
\* bytes, a value no earlier response carried
GoogleLogin(w) ==
    /\ Free(w)
    /\ Admit("login")
    /\ UNCHANGED <<client, env, cfg, now, users, refresh_tokens, auth_audit_log, issued>>
    /\ \E redirect_uri \in env.logins :
         LET redirectURI == IF redirect_uri = <<>> THEN AllowedOrigins[1]
                            ELSE redirect_uri
         IN IF ~ValidRedirect(redirectURI)
            THEN /\ UNCHANGED flows
                 /\ Finish(w, [NoResp EXCEPT !.op = "login", !.status = 400,
                                             !.err = "Invalid redirect_uri",
                                             !.redirect_uri = redirect_uri])
            ELSE /\ Len(flows) < MaxFlows
                 /\ flows' = Append(flows, [oauth_state |-> Len(flows) + 1,
                                            oauth_redirect |-> redirectURI,
                                            consumed |-> FALSE])
                 /\ Finish(w, [NoResp EXCEPT !.op = "login", !.status = 307,
                                             !.location = <<"google">>,
                                             !.redirect_uri = redirect_uri])

(* ---------------- Service.CreateOrUpdateUser --------------------------- *)
InAdminEmails(email) ==
    \E i \in 1..Len(cfg.AdminEmails) : cfg.AdminEmails[i] = email

InitialRole_Admin(email) == RoleAdmin

\* the role of a user that is created
InitialRole(email) ==
    IF InAdminEmails(email) THEN RoleAdmin ELSE RoleUser

\* variant: the lookup also finds soft-deleted users
UsersByGoogleId_AnyRow(gid) ==
    { u \in 1..Len(users) : users[u].google_id = gid }

\* SELECT ... FROM users WHERE google_id = $1 AND deleted_at IS NULL
UsersByGoogleId(gid) ==
    { u \in 1..Len(users) :
        users[u].google_id = gid /\ users[u].deleted_at = NULL }

\* the UNIQUE constraints of the users table on email and google_id
UniqueViolation_None(email, gid) == FALSE

UniqueViolation(email, gid) ==
    \E u \in 1..Len(users) : users[u].email = email \/ users[u].google_id = gid

CallbackResp(status, err) ==
    [NoResp EXCEPT !.op = "callback", !.status = status, !.err = err]

\* the identity ExchangeGoogleCode returns for a code, NoInfo when the
\* exchange or the profile fetch fails
ExchangeGoogleCode(names) ==
    { i \in GoogleUserInfos : i.Name \in names /\ i.ID \in env.ids }
        \cup {NoInfo}

\* the flows whose state a callback presents and that no earlier callback
\* went through with (history, for the checks: the server keeps no record
\* of the states it handed out)
OpenFlows(state) ==
    { i \in 1..Len(flows) : flows[i].oauth_state = state /\ ~flows[i].consumed }

\* a callback that passed the comparison of state and cookie uses the flow up
Consume(state) ==
    [i \in 1..Len(flows) |->
        IF flows[i].oauth_state = state
        THEN [flows[i] EXCEPT !.consumed = TRUE] ELSE flows[i]]

UpdatedRole_Keeps(u) == users[u].role

UpdatedRole_FromList(u) ==
    IF InAdminEmails(users[u].email) THEN RoleAdmin ELSE RoleUser

\* the role written back for a user that exists: 'user' is raised to 'admin'
\* for an email of the allow-list, 'admin' is kept
UpdatedRole(u) ==
    IF users[u].role = RoleUser /\ InAdminEmails(users[u].email)
    THEN RoleAdmin ELSE users[u].role

\* the first statement of CreateOrUpdateUser: the lookup by google_id
Reconcile(w, info, redirectURI, state) ==
    LET found == UsersByGoogleId(info.ID)
        l == [NoLocal EXCEPT !.info = info, !.redirectURI = redirectURI,
                             !.state = state,
                             !.stateOk = OpenFlows(state) # {}]
    IN \/ Finish(w, CallbackResp(500, "Failed to create user"))
       \/ /\ found = {}
          /\ Goto(w, "cb_insert",
                  [l EXCEPT !.user.Role = InitialRole(info.Email)])
       \/ /\ found # {}
          /\ LET u == CHOOSE x \in found : TRUE
                 role == UpdatedRole(u)
             IN Goto(w, "cb_update",
                     [l EXCEPT !.userID = u, !.found = TRUE,
                               !.user = [UserOf(u) EXCEPT !.Role = role]])

\* the request carries the oauth_state cookie, the state and code parameters
\* and the oauth_redirect cookie
GoogleCallback(w) ==
    /\ Free(w)
    /\ Admit("callback")
    /\ UNCHANGED <<client, env, cfg, now, users, refresh_tokens, auth_audit_log, issued>>
    /\ \E stateCookie \in env.states, state \in env.states,
          redirectCookie \in env.redirects :
         \* the response that clears the two cookies ends the flow
         /\ flows' = IF /\ stateCookie # NoCookie
                         /\ state = stateCookie
                         /\ redirectCookie # <<>>
                      THEN Consume(state) ELSE flows
         /\ IF stateCookie = NoCookie
            THEN Finish(w, CallbackResp(400, "State cookie not found"))
            ELSE IF state # stateCookie
            THEN Finish(w, CallbackResp(400, "Invalid state parameter"))
            ELSE
              IF redirectCookie = <<>>
              THEN Finish(w, CallbackResp(400, "Redirect URI cookie not found"))
              ELSE \E code \in {"", "code"} :
                IF code = ""
                THEN Finish(w, CallbackResp(400, "Code not found"))
                ELSE \E exchange \in ExchangeGoogleCode(env.names) :
                  IF exchange = NoInfo
                  THEN Finish(w, CallbackResp(500, "Failed to exchange code"))
                  ELSE Reconcile(w, exchange, redirectCookie, state)

\* variant: the callback goes on to issue tokens whatever the active flag is
AfterReconcile_NoCheck(w, user) ==
    Goto(w, "cb_issue", [local[w] EXCEPT !.user = user, !.userID = user.ID])

\* the check of user.IsActive that follows CreateOrUpdateUser
AfterReconcile(w, user) ==
    IF ~user.IsActive
    THEN Finish(w, CallbackResp(403, "User account is inactive"))
    ELSE Goto(w, "cb_issue", [local[w] EXCEPT !.user = user, !.userID = user.ID])

CallbackInsert(w) ==
    /\ Sent
    /\ pc[w] = "cb_insert"
    /\ UNCHANGED <<client, env, cfg, now, refresh_tokens, auth_audit_log, issued, flows>>
    /\ LET info == local[w].info IN
       \/ /\ UNCHANGED users
          /\ Finish(w, CallbackResp(500, "Failed to create user"))
       \/ /\ ~UniqueViolation(info.Email, info.ID)
          /\ RoomLeft(users, refresh_tokens)
          /\ Len(users) < env.accounts
          /\ users' = Append(users,
                 [email |-> info.Email, google_id |-> info.ID,
                  name |-> info.Name, role |-> local[w].user.Role,
                  is_active |-> TRUE, deleted_at |-> NULL])
          /\ AfterReconcile(w, [ID |-> Len(users) + 1, Email |-> info.Email,
                                Name |-> info.Name, Role |-> local[w].user.Role,
                                IsActive |-> TRUE])

\* variant: the update also enables the user
UpdateExisting_Enables(u, name, role) ==
    users' = [users EXCEPT ![u].name = name, ![u].role = role,
                           ![u].is_active = TRUE]

\* UPDATE users SET name = $1, avatar_url = $2, role = $3, updated_at = NOW()
\* WHERE id = $4
UpdateExisting(u, name, role) ==
    users' = [users EXCEPT ![u].name = name, ![u].role = role]

CallbackUpdate(w) ==
    /\ Sent
    /\ pc[w] = "cb_update"
    /\ UNCHANGED <<client, env, cfg, now, refresh_tokens, auth_audit_log, issued, flows>>
    /\ LET u == local[w].userID IN
       \/ /\ UNCHANGED users
          /\ Finish(w, CallbackResp(500, "Failed to create user"))
       \/ /\ UpdateExisting(u, local[w].info.Name, local[w].user.Role)
          /\ AfterReconcile(w, [ID |-> u, Email |-> users[u].email,
                                Name |-> local[w].info.Name,
                                Role |-> local[w].user.Role,
                                IsActive |-> users[u].is_active])

CallbackIssue(w) ==
    /\ Sent
    /\ pc[w] = "cb_issue"
    /\ UNCHANGED <<client, env, cfg, now, users, auth_audit_log, flows>>
    /\ \/ /\ UNCHANGED <<refresh_tokens, issued>>
          /\ Finish(w, Failed([CallbackResp(500, "Failed to generate tokens")
                  EXCEPT !.access = StoreFailedPair(local[w].user).access,
                         !.refresh = StoreFailedPair(local[w].user).refresh]))
       \/ /\ GenerateTokens(local[w].user, 0)
          /\ Goto(w, "cb_log", [local[w] EXCEPT !.tokens = Len(issued) + 1])

\* the refresh cookie, the LOGIN audit event and the final redirect
CallbackLog(w) ==
    /\ Sent
    /\ pc[w] = "cb_log"
    /\ UNCHANGED <<client, env, cfg, now, users, refresh_tokens, issued, flows>>
    /\ LogAuthEvent(local[w].userID, "LOGIN")
    /\ Finish(w, [CallbackResp(307, "") EXCEPT
                    !.access = issued[local[w].tokens].access,
                    !.refresh = issued[local[w].tokens].refresh,
                    !.location = local[w].redirectURI \o <<"/auth/callback">>])

(* ---------------- middleware.AuthMiddleware and the protected routes --- *)
\* Authorization headers a client can send: none, or a scheme and a token it
\* was handed
Headers ==
    {NoHeader} \cup
    [scheme : {"Bearer"}, token : {issued[i].access : i \in Handed}] \cup
    [scheme : {"Bearer"}, token : env.forged] \cup
    [scheme : {"Basic"}, token : {issued[i].access : i \in {j \in Handed : j = 1}}]

\* variant: the scheme of the header is not looked at
AuthMiddleware_AnyScheme(hdr) ==
    /\ hdr # NoHeader
    /\ ValidateAccessToken(hdr.token, cfg.JWTPublicKey, now)

\* TRUE iff the middleware calls the next handler
AuthMiddleware(hdr) ==
    /\ hdr # NoHeader
    /\ hdr.scheme = "Bearer"
    /\ ValidateAccessToken(hdr.token, cfg.JWTPublicKey, now)

\* variant: the statement lacks AND deleted_at IS NULL
LiveUserRows_AnyRow(id) == { u \in 1..Len(users) : u = id }

\* the rows WHERE id = $n AND deleted_at IS NULL selects
LiveUserRows(id) ==
    { u \in 1..Len(users) : u = id /\ users[u].deleted_at = NULL }

\* what the stored data says about the presented token when the middleware
\* runs (history, for the checks): is its subject an active user
HttpOf(route, status, hdr) ==
    [NoResp EXCEPT
       !.op = route, !.status = status, !.hdr = hdr,
       !.passed = AuthMiddleware(hdr),
       !.ownerActive = /\ hdr.token.sub \in 1..Len(users)
                       /\ users[hdr.token.sub].is_active
                       /\ users[hdr.token.sub].deleted_at = NULL]

Rejected(hdr, route) ==
    /\ ~AuthMiddleware(hdr)
    /\ resp' = HttpOf(route, 401, hdr)
    /\ UNCHANGED users

\* GetCurrentUser, ListUsers, GetUser: read-only handlers
ReadUsers(hdr, route, id) ==
    LET target == IF route = "me" THEN hdr.token.sub ELSE id IN
    /\ UNCHANGED users
    /\ \/ resp' = HttpOf(route, IF route = "me" THEN 404 ELSE 500, hdr)
       \/ /\ route # "list"
          /\ LiveUserRows(target) = {}
          /\ resp' = HttpOf(route, 404, hdr)
       \/ /\ route = "list" \/ LiveUserRows(target) # {}
          /\ resp' = HttpOf(route, 200, hdr)

\* UPDATE users SET name = COALESCE($1, name), ... WHERE id AND deleted_at IS NULL
UpdateUser(hdr, id, name) ==
    \/ /\ LiveUserRows(id) # {}
       /\ users' = [users EXCEPT ![id].name =
                       IF name = "" THEN users[id].name ELSE name]
       /\ resp' = HttpOf("update", 200, hdr)
    \/ /\ UNCHANGED users
       /\ resp' = HttpOf("update", 500, hdr)

\* UPDATE users SET deleted_at = NOW(), is_active = false WHERE id AND deleted_at IS NULL
DeleteUser(hdr, id) ==
    \/ /\ LiveUserRows(id) # {}
       /\ users' = [users EXCEPT ![id].deleted_at = now,
                                 ![id].is_active = FALSE]
       /\ resp' = HttpOf("delete", 200, hdr)
    \/ /\ LiveUserRows(id) = {}
       /\ UNCHANGED users
       /\ resp' = HttpOf("delete", 404, hdr)
    \/ /\ UNCHANGED users
       /\ resp' = HttpOf("delete", 500, hdr)

\* UPDATE users SET is_active = true WHERE id AND deleted_at IS NULL
ActivateUser(hdr, id) ==
    \/ /\ LiveUserRows(id) # {}
       /\ users' = [users EXCEPT ![id].is_active = TRUE]
       /\ resp' = HttpOf("activate", 200, hdr)
    \/ /\ UNCHANGED users
       /\ resp' = HttpOf("activate", 404, hdr)

\* UPDATE users SET is_active = false WHERE id AND deleted_at IS NULL
DeactivateUser(hdr, id) ==
    \/ /\ LiveUserRows(id) # {}
       /\ users' = [users EXCEPT ![id].is_active = FALSE]
       /\ resp' = HttpOf("deactivate", 200, hdr)
    \/ /\ UNCHANGED users
       /\ resp' = HttpOf("deactivate", 404, hdr)

UserIds == 1..Cardinality(env.ids)

\* the router of main.go for the group behind AuthMiddleware: the middleware
\* answers 401 itself or hands the request to the route's handler
Protected(route) ==
    /\ route \in env.routes
    /\ Admit("protected")
    /\ UNCHANGED <<client, env, cfg, now, refresh_tokens, auth_audit_log, issued, flows,
                   pc, local>>
    /\ \E hdr \in Headers :
         IF ~AuthMiddleware(hdr)
         THEN Rejected(hdr, route)
         ELSE \E id \in UserIds :
              CASE route \in {"me", "list", "get"} -> ReadUsers(hdr, route, id)
                [] route = "update" ->
                     \E name \in env.edits \cup {""} : UpdateUser(hdr, id, name)
                [] route = "delete" -> DeleteUser(hdr, id)
                [] route = "activate" -> ActivateUser(hdr, id)
                [] route = "deactivate" -> DeactivateUser(hdr, id)

(* ---------------- the system ------------------------------------------- *)
\* requests arriving at the server
Arrive ==
    \/ \E w \in Workers : RefreshToken(w)
    \/ \E w \in Workers : Logout(w)
    \/ \E w \in Workers : GoogleLogin(w)
    \/ \E w \in Workers : GoogleCallback(w)
    \/ \E route \in ProtectedRoutes : Protected(route)

\* the next statement of a handler that is under way
Proceed ==
    \/ \E w \in Workers : RefreshRevoke(w)
    \/ \E w \in Workers : RefreshGetUser(w)
    \/ \E w \in Workers : RefreshIssue(w)
    \/ \E w \in Workers : LogoutRevoke(w)
    \/ \E w \in Workers : CallbackInsert(w)
    \/ \E w \in Workers : CallbackUpdate(w)
    \/ \E w \in Workers : CallbackIssue(w)
    \/ \E w \in Workers : CallbackLog(w)

\* the response of a handler is written to the client before the server
\* takes its next step
Deliver ==
    /\ resp # NoResp
    /\ resp' = NoResp
    /\ UNCHANGED <<client, env, cfg, now, users, refresh_tokens, auth_audit_log,
                   issued, flows, pc, local>>

\* main: the process is started, or stopped once the requests under way are
\* answered and started again, with the ADMIN_EMAILS of its new environment;
\* the database and the key files stay
Restart ==
    /\ \A w \in Workers : pc[w] = "idle"
    /\ Sent
    /\ \E l \in env.adminLists : cfg' = Load(env, l)
    /\ resp' = NoResp
    /\ UNCHANGED <<client, env, now, users, refresh_tokens, auth_audit_log, issued,
                   flows, pc, local>>

Next == Arrive \/ Proceed \/ Tick \/ Deliver \/ Restart

(* ---------------- Handler.ListUsers ----------------------------------- *)
MaxInt == 2^(IntBits - 1) - 1
MinInt == 0 - 2^(IntBits - 1)

\* the result of an int operation whose exact value is n: Go wraps around
WrapInt(n) ==
    LET m == n % (2^IntBits)
    IN  IF m > MaxInt THEN m - 2^IntBits ELSE m

Digits == <<"0", "1", "2", "3", "4", "5", "6", "7", "8", "9">>

IsDigit(c) == \E d \in 1..10 : Digits[d] = c

DigitOf(c) == (CHOOSE d \in 1..10 : Digits[d] = c) - 1

\* the number a string of digits denotes
RECURSIVE Decimal(_)
Decimal(s) ==
    IF s = <<>> THEN 0
    ELSE 10 * Decimal(SubSeq(s, 1, Len(s) - 1)) + DigitOf(s[Len(s)])

\* strconv.Atoi, its error dropped as ListUsers drops it: 0 for a string
\* that is no number, the nearest int for a number out of range
Atoi(s) ==
    LET signed == s # <<>> /\ s[1] \in {"+", "-"}
        digits == IF signed THEN SubSeq(s, 2, Len(s)) ELSE s
        n == IF signed /\ s[1] = "-" THEN 0 - Decimal(digits)
             ELSE Decimal(digits)
    IN  IF digits = <<>> \/ \E i \in 1..Len(digits) : ~IsDigit(digits[i])
        THEN 0
        ELSE IF n > MaxInt THEN MaxInt
        ELSE IF n < MinInt THEN MinInt
        ELSE n

\* values of the page and page_size parameters (<<>>: not given)
QueryValues ==
    { <<>>, <<"x">>, <<"0">>, <<"1">>, <<"2">>, <<"3">>, <<"-", "1">>,
      <<"2", "0">>, <<"1", "0", "0">>, <<"1", "0", "1">>,
      <<"+", "2">>, <<"9", "9", "9", "9", "9", "9">> }

\* SELECT COUNT(*) FROM users WHERE deleted_at IS NULL
CountUsers == Cardinality({ u \in 1..Len(users) : users[u].deleted_at = NULL })

\* the ids of the users that are not deleted, latest first
RECURSIVE LatestFirst(_)
LatestFirst(n) ==
    IF n = 0 THEN <<>>
    ELSE IF users[n].deleted_at = NULL THEN <<n>> \o LatestFirst(n - 1)
    ELSE LatestFirst(n - 1)

\* ... ORDER BY created_at DESC LIMIT $1 OFFSET $2
SelectUsers(limit, offset) ==
    LET all == LatestFirst(Len(users))
        last == IF offset + limit < Len(all) THEN offset + limit ELSE Len(all)
    IN  SubSeq(all, offset + 1, last)

\* if pageSize < 1 || pageSize > 100 { pageSize = 20 }
PageSizeOf(pageSize) == IF pageSize < 1 \/ pageSize > 100 THEN 20 ELSE pageSize

\* the handler behind the middleware, for a caller that passed it
ListUsers ==
    /\ Sent
    /\ UNCHANGED <<client, env, cfg, now, users, refresh_tokens,
                   auth_audit_log, issued, flows, pc, local>>
    /\ \E pageParam \in QueryValues, pageSizeParam \in QueryValues :
         LET page == IF Atoi(pageParam) < 1 THEN 1 ELSE Atoi(pageParam)
             pageSize == PageSizeOf(Atoi(pageSizeParam))
             offset == WrapInt((page - 1) * pageSize)
             total == CountUsers
             l == [NoList EXCEPT !.page_in = Atoi(pageParam),
                                 !.page_size_in = Atoi(pageSizeParam),
                                 !.offset = offset]
         IN  \* the count fails
             \/ resp' = [HttpOf("list", 500, NoHeader) EXCEPT
                            !.err = "Failed to count users", !.list = l]
             \* the query fails; it does for an OFFSET below 0
             \/ resp' = [HttpOf("list", 500, NoHeader) EXCEPT
                            !.err = "Failed to query users", !.list = l]
             \/ /\ offset >= 0
                /\ resp' = [HttpOf("list", 200, NoHeader) EXCEPT !.list =
                      [l EXCEPT
                         !.Users = SelectUsers(pageSize, offset),
                         !.Total = total,
                         !.Page = page,
                         !.PageSize = pageSize,
                         !.TotalPages =
                             WrapInt(WrapInt(total + pageSize - 1)
                                       \div pageSize)]]

\* the profiles of the users a listing starts from
ListedProfiles ==
    << [email |-> "a@x.com", google_id |-> "g1"],
       [email |-> "b@x.com", google_id |-> "g2"],
       [email |-> "c@x.com", google_id |-> "g4"],
       [email |-> "d@x.com", google_id |-> "g5"] >>

\* users tables of up to MaxListed rows, any of them soft-deleted
ListedUsers ==
    UNION { { [u \in 1..n |->
                 [email |-> ListedProfiles[((u - 1) % 4) + 1].email,
                  google_id |-> ListedProfiles[((u - 1) % 4) + 1].google_id,
                  name |-> "n1", role |-> RoleUser,
                  is_active |-> ~deleted[u],
                  deleted_at |-> IF deleted[u] THEN 0 ELSE NULL]] :
              deleted \in [1..n -> BOOLEAN] } : n \in 0..MaxListed }

ListInit ==
    /\ env = TokenEnv(MaxListed, {"list"}, {})
    /\ cfg = [JWTPrivateKey |-> "k1", JWTPublicKey |-> "k1",
              AdminEmails |-> AdminEmails, up |-> TRUE, err |-> ""]
    /\ now = 0
    /\ users \in ListedUsers
    /\ refresh_tokens = <<>>
    /\ auth_audit_log = <<>>
    /\ issued = <<>>
    /\ flows = <<>>
    /\ pc = [w \in Workers |-> "idle"]
    /\ local = [w \in Workers |-> NoLocal]
    /\ resp = NoResp
    /\ client = NoClient

ListNext == ListUsers \/ Deliver

\* calls of ListUsers alone, on every users table and with every pair of
\* parameters
ListSpec == ListInit /\ [][ListNext]_vars

(* ---------------- frontend/src/services/api.ts ------------------------- *)
RefreshURL == "/api/auth/refresh"
LogoutURL == "/api/auth/logout"

\* the calls of authAPI and usersAPI that the pages make
ClientURLs == {"/api/auth/me", "/api/users", LogoutURL}

\* what a request can end with: the status of the response, or 0 when no
\* response arrives (error.response is undefined)
Statuses == {0, 200, 401, 500}

\* api(config): the request interceptor adds the stored token, the request
\* is sent and its promise is pending
Request(url, retry) ==
    [url |-> url, _retry |-> retry, state |-> "sent",
     Authorization |-> client.access_token, sends |-> 1]

Top == client.calls[Len(client.calls)]

Pop == SubSeq(client.calls, 1, Len(client.calls) - 1)

\* AuthCallback: the page comes back from the sign-in with a new token
ClientLogin ==
    /\ client.location = "/login"
    /\ client.calls = <<>>
    /\ client.settled = "none"
    /\ client.minted < MaxMinted
    /\ client' = [client EXCEPT !.access_token = client.minted + 1,
                                !.minted = client.minted + 1,
                                !.location = "/app"]
    /\ UNCHANGED serverVars

\* a page calls the API
ClientCall ==
    /\ client.calls = <<>>
    /\ client.settled = "none"
    /\ client.location = "/app"
    /\ \E url \in ClientURLs :
         client' = [client EXCEPT !.calls = <<Request(url, FALSE)>>]
    /\ UNCHANGED serverVars

\* variant: the refresh is sent with a configuration that is marked as
\* retried already
RefreshRequest_Marked == Request(RefreshURL, TRUE)

\* api.post('/api/auth/refresh'): a request with a configuration of its own
RefreshRequest == Request(RefreshURL, FALSE)

\* the response interceptor runs on the outcome of the innermost request
ClientAnswer ==
    /\ client.calls # <<>>
    /\ client.settled = "none"
    /\ Top.state = "sent"
    /\ \E status \in Statuses :
         IF status = 200
         THEN /\ Top.url = RefreshURL => client.minted < MaxMinted
              /\ client' = [client EXCEPT
                    !.calls = Pop, !.settled = "resolved", !.last = Top.url,
                    !.status = status,
                    !.minted = IF Top.url = RefreshURL THEN @ + 1 ELSE @]
         ELSE IF status = 401 /\ ~Top._retry
         THEN /\ Len(client.calls) < MaxCalls
              /\ client' = [client EXCEPT
                    !.status = status,
                    !.calls =
                      Append(Pop, [Top EXCEPT !._retry = TRUE,
                                              !.state = "awaitRefresh"])
                        \o <<RefreshRequest>>]
         ELSE client' = [client EXCEPT !.calls = Pop, !.settled = "rejected",
                                       !.last = Top.url, !.status = status]
    /\ UNCHANGED serverVars

\* variant: the configuration of the request that is sent again has lost
\* the mark
Resend_Unmarked(req, access_token) ==
    [req EXCEPT !.state = "sent", !.Authorization = access_token,
                !._retry = FALSE, !.sends = @ + 1]

\* api(originalRequest): the request is sent again with its configuration,
\* the mark and the new token in it (sends counts how often it was sent,
\* history for the checks)
Resend(req, access_token) ==
    [req EXCEPT !.state = "sent", !.Authorization = access_token,
                !.sends = @ + 1]

\* a settled promise reaches the code that awaits it: the interceptor that
\* awaits the refresh (it stores the new token and sends the request again,
\* or removes the token and goes to /login), or the page
ClientSettle ==
    /\ client.settled # "none"
    /\ IF client.calls = <<>>
       THEN client' = [client EXCEPT
                          !.settled = "none",
                          !.access_token =
                              IF client.last = LogoutURL
                                 /\ client.settled = "resolved"
                              THEN 0 ELSE @]
       ELSE IF client.settled = "resolved"
       THEN client' = [client EXCEPT
                          !.access_token = client.minted,
                          !.calls = Append(Pop, Resend(Top, client.minted)),
                          !.settled = "none"]
       ELSE client' = [client EXCEPT
                          !.access_token = 0,
                          !.location = "/login",
                          !.calls = Pop]
    /\ UNCHANGED serverVars

ClientNext == ClientLogin \/ ClientCall \/ ClientAnswer \/ ClientSettle

\* the web client alone, against a server that answers anything
ClientSpec == SeqInit /\ [][ClientNext]_vars

\* refreshes served concurrently, interleaved at statement boundaries with
\* each other and with the calls of protected routes
Spec == Init /\ [][Next]_vars

\* requests served one at a time: none arrives while a handler is under way
SeqSpec == SeqInit /\ [][Next]_vars

\* validation of issued and of forged tokens, under every pair of key files
JwtSpec == JwtInit /\ [][Next]_vars
OAuthSpec == OAuthInit /\ [][Next]_vars
RoleSpec == RoleInit /\ [][Next]_vars
UserSpec == UserInit /\ [][Next]_vars
DeleteSpec == DeleteInit /\ [][Next]_vars
StartSpec == StartInit /\ [][Next]_vars
LogoutSpec == LogoutInit /\ [][Next]_vars
LoginSpec == LoginInit /\ [][Next]_vars

(* ====================== properties of the token lifecycle ============== *)
\* the pairs that were obtained by redeeming row i
Successors(i) == { j \in 1..Len(issued) : issued[j].parent = i }

IssuedTokens == { issued[i].access : i \in 1..Len(issued) }

Bearer(tok) == [scheme |-> "Bearer", token |-> tok]

OwnerActive(u) ==
    u \in 1..Len(users) /\ users[u].is_active /\ users[u].deleted_at = NULL

RefreshSteps == {"rf_revoke", "rf_user", "rf_issue"}

\* C1: with requests served one at a time, a raw refresh token is rotated
\* successfully at most once: no row has two successors, and a refresh that
\* presents a token which already has a successor matches no row, is answered
\* 401 and returns no token pair; the service error in the answer is "invalid
\* or expired refresh token", or the query error when the scan could not run.
C1_RotatedAtMostOnce ==
    /\ \A i \in 1..Len(refresh_tokens) : Cardinality(Successors(i)) <= 1
    /\ (resp.op = "refresh" /\ resp.replay) =>
          /\ resp.status = 401
          /\ resp.err \in {ErrInvalid, ErrQuery}
          /\ resp.matched = 0
          /\ resp.access = NoToken
          /\ resp.refresh = 0

\* a token that was rotated is presented again and refused
C1_Witness ==
    /\ resp.op = "refresh"
    /\ resp.replay
    /\ resp.err = ErrInvalid
    /\ Successors(RowOf(resp.raw)) # {}

\* C2: when refreshes presenting the same raw token overlap, at most one of
\* them succeeds: no two token pairs are derived from one refresh token.
C2_OneRotationPerToken ==
    \A j, k \in 1..Len(issued) :
        (issued[j].parent # 0 /\ issued[j].parent = issued[k].parent) => j = k

\* C3: token operations are all-or-nothing: a refresh that ends with an error
\* leaves the presented record unrevoked, as the scan found it, and a
\* GenerateTokens that fails adds no row.
C3_AllOrNothing ==
    [][\A w \in Workers :
         /\ (pc[w] \in RefreshSteps /\ pc'[w] = "idle" /\ resp'.status # 200)
              => refresh_tokens'[local[w].tokenID].revoked_at = NULL
         /\ (/\ pc[w] \in {"rf_issue", "cb_issue"}
             /\ pc'[w] = "idle"
             /\ resp'.status \notin {200, 307})
              => Len(refresh_tokens') = Len(refresh_tokens)]_vars

\* C4: a refresh succeeds only for a record that, when it was scanned, was
\* unrevoked and had its expiry strictly ahead, and whose owner was active
\* when looked up; a token presented at or after the expiry of its record,
\* or after its revocation, gets 401 and no token pair.
C4_RedeemableIffValid ==
    resp.op = "refresh" =>
      /\ resp.status = 200 =>
            /\ resp.matched # 0
            /\ resp.matched = RowOf(resp.raw)
            /\ resp.seenRevoked = NULL
            /\ resp.seenExpires > resp.scanAt
            /\ resp.ownerOk
      /\ (\/ RowOf(resp.raw) = 0
          \/ resp.seenRevoked # NULL
          \/ resp.seenExpires <= resp.scanAt) =>
            /\ resp.status = 401
            /\ resp.matched = 0
            /\ resp.access = NoToken
            /\ resp.refresh = 0

\* an unrevoked token is presented at the very second of its expiry and refused
C4_Witness ==
    /\ resp.op = "refresh"
    /\ resp.err = ErrInvalid
    /\ RowOf(resp.raw) # 0
    /\ resp.seenRevoked = NULL
    /\ resp.seenExpires = resp.scanAt

\* C5: after a Logout that presented a raw token matching a valid record, the
\* record is revoked and the call has created no row.
C5_LogoutRevokes ==
    (/\ resp.op = "logout"
     /\ resp.status = 200
     /\ RowOf(resp.raw) # 0
     /\ resp.seenRevoked = NULL
     /\ resp.seenExpires > resp.scanAt)
      => /\ refresh_tokens[RowOf(resp.raw)].revoked_at # NULL
         /\ resp.refresh = 0

\* C6: a Logout without cookie, or whose raw token matches no valid record
\* (unknown, revoked, rotated or expired), answers 200 and changes no record.
C6_LogoutNoMatchIsSilent ==
    [][(/\ resp'.op = "logout"
        /\ \/ resp'.raw = NoCookie
           \/ RowOf(resp'.raw) = 0
           \/ resp'.seenRevoked # NULL
           \/ resp'.seenExpires <= resp'.scanAt)
         => /\ resp'.status = 200
            /\ resp'.matched = 0
            /\ refresh_tokens' = refresh_tokens
            /\ issued' = issued]_vars

\* a Logout presents a token that was already revoked
C6_Witness ==
    /\ resp.op = "logout"
    /\ resp.status = 200
    /\ RowOf(resp.raw) # 0
    /\ resp.seenRevoked # NULL

C8_InactiveLoginRefused ==
    [][\A w \in Workers :
         (/\ pc[w] = "cb_update"
          /\ pc'[w] # "cb_update"
          /\ ~users[local[w].userID].is_active)
           => /\ pc'[w] = "idle"
              /\ resp'.op = "callback"
              /\ resp'.status \in {403, 500}
              /\ resp'.status = 500 => users' = users
              /\ resp'.access = NoToken
              /\ resp'.refresh = 0
              /\ refresh_tokens' = refresh_tokens
              /\ issued' = issued
              /\ auth_audit_log' = auth_audit_log]_vars

\* a deactivated user signs in again and is refused
C8_Witness ==
    /\ resp.op = "callback"
    /\ resp.status = 403
    /\ Len(issued) > 0

\* C9: the verdict on a token depends on the token, the key and the clock
\* only: no step that leaves the clock alone (whatever it does to users and
\* refresh tokens) changes the verdict on any issued token, and every issued
\* token passes until its expiry whatever became of its user.
C9_ValidationIgnoresStoredData ==
    [][/\ now' = now =>
           \A tok \in IssuedTokens :
               AuthMiddleware(Bearer(tok))' = AuthMiddleware(Bearer(tok))
       /\ \A tok \in IssuedTokens :
             (now' < tok.exp /\ cfg'.JWTPublicKey = tok.sig)
               => AuthMiddleware(Bearer(tok))']_vars

\* the middleware lets a request through whose token belongs to a user that
\* is no longer active
C9_Witness ==
    /\ resp.op \in ProtectedRoutes
    /\ resp.passed
    /\ resp.hdr.token \in IssuedTokens
    /\ ~resp.ownerActive

\* C10: every issued access token validates, under the public key matching
\* the signing key, at every second from its issue to just before its
\* expiry; its subject is the user the pair was issued to (the owner of the
\* refresh-token row of the pair) and its expiry is its issued-at plus the
\* access-token TTL, the issued-at being the time of the call.
C10_IssueThenValidate ==
    \A i \in 1..Len(issued) :
        LET tok == issued[i].access IN
        /\ tok.sub = refresh_tokens[i].user_id
        /\ tok.sub \in 1..Len(users)
        /\ tok.exp = tok.iat + JWTAccessTokenExpiry
        /\ tok.iat + JWTRefreshTokenExpiry = refresh_tokens[i].expires_at
        /\ \A t \in tok.iat..(tok.exp - 1) :
              ValidateAccessToken(tok, cfg.JWTPrivateKey, t)

\* a token is issued and then accepted by the middleware
C10_Witness ==
    /\ resp.op \in ProtectedRoutes
    /\ resp.passed
    /\ resp.hdr.token \in IssuedTokens
    /\ resp.hdr.token.sub \in 1..Len(users)

(* ====================== properties of the access tokens ================ *)
\* every token a request can carry
PresentedTokens == IssuedTokens \cup env.forged

\* C11: a token whose signature was not made with the private key of the
\* public key given to ValidateAccessToken, or whose header names a method
\* outside the RSA family, is rejected at every time and whatever it claims;
\* the middleware answers such a request 401.
C11_ForeignTokensRejected ==
    /\ \A tok \in PresentedTokens, key \in Keys, t \in 0..MaxTime :
          (tok.sig # key \/ tok.alg \notin RSAMethods)
            => ~ValidateAccessToken(tok, key, t)
    /\ (/\ resp.op \in ProtectedRoutes
        /\ resp.hdr # NoHeader
        /\ \/ resp.hdr.token.sig # cfg.JWTPublicKey
           \/ resp.hdr.token.alg \notin RSAMethods)
         => ~resp.passed /\ resp.status = 401

\* a token "signed" by HMAC with the service's public key as the secret is
\* presented and refused
C11_Witness ==
    /\ resp.op \in ProtectedRoutes
    /\ resp.hdr.scheme = "Bearer"
    /\ resp.hdr.token.alg = "HS256"
    /\ resp.hdr.token.sig = cfg.JWTPublicKey
    /\ resp.hdr.token.exp > now
    /\ resp.status = 401

\* C12: in whole seconds, a correctly signed token is accepted at every
\* instant before its expiry, the last second before it included, and is
\* rejected at every instant after its expiry, from one second after it on.
C12_ExpiryBoundary ==
    /\ \A tok \in IssuedTokens, t \in 0..(MaxTime + 1) :
          /\ t < tok.exp => ValidateAccessToken(tok, tok.sig, t)
          /\ t > tok.exp => ~ValidateAccessToken(tok, tok.sig, t)
    /\ (/\ resp.op \in ProtectedRoutes
        /\ resp.hdr.scheme = "Bearer"
        /\ resp.hdr.token \in IssuedTokens
        /\ resp.hdr.token.sig = cfg.JWTPublicKey)
         => /\ now < resp.hdr.token.exp => resp.passed
            /\ now > resp.hdr.token.exp => ~resp.passed /\ resp.status = 401

\* a correctly signed token is presented one second after its expiry and
\* refused
C12_Witness ==
    /\ resp.op \in ProtectedRoutes
    /\ resp.hdr.scheme = "Bearer"
    /\ resp.hdr.token \in IssuedTokens
    /\ resp.hdr.token.sig = cfg.JWTPublicKey
    /\ now = resp.hdr.token.exp + 1
    /\ resp.status = 401

\* C13: whatever key files the service loaded, the public key it exports
\* and gives to AuthMiddleware validates every access token it issued, from
\* the moment of issue.
C13_ExportedKeyValidatesIssued ==
    \A tok \in IssuedTokens :
        ValidateAccessToken(tok, cfg.JWTPublicKey, tok.iat)

(* ====================== properties of the stored records =============== *)
\* C14: no row of refresh_tokens holds a raw token that was handed to a
\* caller: the token_hash column holds the hash of the raw token of the pair
\* issued with the row, a row has no other column that takes a token, a
\* presented token finds its row through the hash only, and an audit row
\* holds a user id and an action name.
C14_RawNeverStored ==
    /\ \A i \in 1..Len(refresh_tokens) :
          /\ DOMAIN refresh_tokens[i] =
                {"user_id", "token_hash", "expires_at", "revoked_at"}
          /\ refresh_tokens[i].token_hash = HashRefreshToken(issued[i].refresh)
          /\ refresh_tokens[i].token_hash \notin Presentable
          /\ refresh_tokens[i].user_id \in 1..Len(users)
    /\ \A raw \in Presentable :
          RowOf(raw) # 0 =>
            refresh_tokens[RowOf(raw)].token_hash = HashRefreshToken(raw)
    /\ \A i \in 1..Len(auth_audit_log) :
          /\ DOMAIN auth_audit_log[i] = {"user_id", "action"}
          /\ auth_audit_log[i].action \in {"LOGIN", "LOGOUT"}
          /\ auth_audit_log[i].user_id \in 1..Len(users)

\* a presented raw token was matched with its row and redeemed, and the
\* login that issued it was logged
C14_Witness ==
    /\ resp.op = "refresh"
    /\ resp.status = 200
    /\ resp.matched = RowOf(resp.raw)
    /\ Len(auth_audit_log) > 0

C16_StateIssuedAndFresh ==
    \A w \in Workers :
        pc[w] \in {"cb_insert", "cb_update"} => local[w].stateOk

\* C17: whenever a user is created, it is active, and its role is admin if
\* the email of the identity is in the configured admin allow-list and user
\* otherwise
C17_NewUserRole ==
    [][Len(users') > Len(users) =>
          /\ Len(users') = Len(users) + 1
          /\ \E w \in Workers :
                /\ pc[w] = "cb_insert"
                /\ UsersByGoogleId(local[w].info.ID) = {}
                /\ LET n == users'[Len(users')] IN
                   /\ n.email = local[w].info.Email
                   /\ n.google_id = local[w].info.ID
                   /\ n.is_active
                   /\ n.deleted_at = NULL
                   /\ n.role = IF InAdminEmails(n.email)
                               THEN RoleAdmin ELSE RoleUser]_vars

\* an admin was just created next to a user that is none
C17_Witness ==
    \E w \in Workers :
        /\ pc[w] = "cb_issue"
        /\ ~local[w].found
        /\ Len(users) = 2
        /\ local[w].userID = 2
        /\ users[2].role = RoleAdmin
        /\ users[1].role = RoleUser

\* the step of worker w that wrote back the user the lookup had found
UpdatedBy(w) ==
    /\ pc[w] = "cb_update"
    /\ \/ pc'[w] = "cb_issue"
       \/ resp'.err = "User account is inactive"

C19_AdminStaysAdmin ==
    [][\A u \in 1..Len(users) :
          users[u].role = RoleAdmin => users'[u].role = RoleAdmin]_vars

\* a login wrote back an admin whose email is not in the allow-list
C19_Witness ==
    \E w \in Workers :
        /\ pc[w] = "cb_issue"
        /\ local[w].found
        /\ users[local[w].userID].role = RoleAdmin
        /\ ~InAdminEmails(users[local[w].userID].email)

\* C20: at any time, also after logins of one identity that overlap, no two
\* users that are not deleted have the same email or the same Google id
C20_OneUserPerIdentity ==
    \A u, v \in 1..Len(users) :
        (u # v /\ users[u].deleted_at = NULL /\ users[v].deleted_at = NULL) =>
            /\ users[u].email # users[v].email
            /\ users[u].google_id # users[v].google_id

\* of two first logins of one identity, one has created the user and the
\* other is about to insert it
C20_Witness ==
    \E w \in Workers :
        /\ pc[w] = "cb_insert"
        /\ UsersByGoogleId(local[w].info.ID) # {}

\* the step appends an audit row for the user with the action
Audited(userID, action) ==
    /\ Len(auth_audit_log') = Len(auth_audit_log) + 1
    /\ auth_audit_log'[Len(auth_audit_log')] =
          [user_id |-> userID, action |-> action]

\* C21: every step that answers a login with the redirect carrying the
\* tokens appends a LOGIN row to auth_audit_log, every step that answers a
\* refresh with 200 appends a TOKEN_REFRESH row for the owner, and every
\* step that answers a logout appends a LOGOUT row
C21_EventsReachAudit ==
    [][/\ (resp'.op = "callback" /\ resp'.status = 307) =>
             \E u \in 1..Len(users) : Audited(u, "LOGIN")
       /\ (resp'.op = "refresh" /\ resp'.status = 200) =>
             \E u \in 1..Len(users) : Audited(u, "TOKEN_REFRESH")
       /\ (resp'.op = "logout" /\ resp'.status = 200) =>
             \E u \in 0..Len(users) : Audited(u, "LOGOUT")]_vars

\* C22: a request of which a storage call failed inside GenerateTokens,
\* RefreshAccessToken or RevokeRefreshToken is answered with an error, never
\* with a success
C22_StorageFailureIsReported ==
    resp.fault => resp.status \notin {200, 307}

\* C23: when the insert of the refresh-token row fails, the request is
\* answered with an error that carries neither the signed access token nor
\* a raw refresh token (no cookie, no redirect), and no pair counts as issued
C23_FailedInsertReturnsNothing ==
    [][\A w \in Workers :
         (/\ pc[w] \in {"rf_issue", "cb_issue"}
          /\ pc'[w] # pc[w]
          /\ refresh_tokens' = refresh_tokens)
           => /\ pc'[w] = "idle"
              /\ resp'.status \in {401, 500}
              /\ resp'.access = NoToken
              /\ resp'.refresh = 0
              /\ resp'.location = <<>>
              /\ issued' = issued]_vars

\* a login whose insert of the refresh-token row failed was answered
C23_Witness ==
    /\ resp.op = "callback"
    /\ resp.fault
    /\ resp.err = "Failed to generate tokens"

\* C24: user rows are never removed, and once deleted_at of a user is set no
\* step changes the row of that user or issues a token pair for it
C24_SoftDeleteIsTerminal ==
    [][/\ Len(users') >= Len(users)
       /\ \A u \in 1..Len(users) :
             users[u].deleted_at # NULL =>
               /\ users'[u] = users[u]
               /\ \A i \in 1..Len(issued') :
                     i > Len(issued) => issued'[i].access.sub # u]_vars

\* C25 as stated: once the active flag of a user is false, no step sets it
\* back to true
C25_DeactivationIsTerminal ==
    [][\A u \in 1..Len(users) :
          ~users[u].is_active => ~users'[u].is_active]_vars

\* C25 as amended: the active flag of a user goes from false to true only in
\* a call of ActivateUser that passed the middleware and was answered 200,
\* and only for a user that is not deleted
C25_OnlyActivateUserReactivates ==
    [][\A u \in 1..Len(users) :
          (~users[u].is_active /\ users'[u].is_active) =>
             /\ resp'.op = "activate"
             /\ resp'.status = 200
             /\ resp'.passed
             /\ users[u].deleted_at = NULL]_vars

\* a caller whose own user was inactive has activated it
C25_Witness ==
    /\ resp.op = "activate"
    /\ resp.status = 200
    /\ ~resp.ownerActive
    /\ resp.hdr.token.sub \in 1..Len(users)
    /\ users[resp.hdr.token.sub].is_active
    /\ users[resp.hdr.token.sub].deleted_at = NULL

\* C26: a request on a protected route whose Authorization header is not
\* the scheme Bearer with a token ValidateAccessToken accepts under the
\* configured public key at the time of the request is answered 401 and
\* changes no user; any other answer comes from a handler that ran for such
\* a header, and /api/auth/me answers 200 only with the user that the
\* token names as its subject
C26_HandlerNeedsValidBearer ==
    [][resp'.op \in ProtectedRoutes =>
         LET hdr == resp'.hdr
             ok == /\ hdr # NoHeader
                   /\ hdr.scheme = "Bearer"
                   /\ ValidateAccessToken(hdr.token, cfg.JWTPublicKey, now)
         IN /\ ~ok => (resp'.status = 401 /\ users' = users)
            /\ resp'.status # 401 => ok
            /\ (resp'.op = "me" /\ resp'.status = 200) =>
                  /\ hdr.token.sub \in 1..Len(users)
                  /\ users[hdr.token.sub].deleted_at = NULL]_vars

\* a call of DeactivateUser that carried an issued token past its expiry
\* was refused while a user it could have deactivated is active
C26_Witness ==
    /\ resp.op = "deactivate"
    /\ resp.status = 401
    /\ resp.hdr.scheme = "Bearer"
    /\ resp.hdr.token \in IssuedTokens
    /\ resp.hdr.token.sig = cfg.JWTPublicKey
    /\ now >= resp.hdr.token.exp
    /\ \E u \in 1..Len(users) : users[u].is_active

\* the routes under /api/users
UserRoutes == ProtectedRoutes \ {"me"}

\* C27: a call of a user-management route whose token passed the middleware
\* but does not carry the role admin is answered 403 and changes no user
C27_UserManagementNeedsAdmin ==
    [][(/\ resp'.op \in UserRoutes
        /\ resp'.passed
        /\ resp'.hdr.token.role # RoleAdmin)
          => (resp'.status = 403 /\ users' = users)]_vars

\* C28: the server takes requests only with a private and a public key that
\* Load has read from the key files; when one of the files does not load the
\* process ends with the error of Load and serves nothing, so every token
\* that is issued is signed with a loaded private key
C28_NoServingWithoutKeys ==
    /\ cfg.up => /\ cfg.JWTPrivateKey \in Keys
                 /\ cfg.JWTPublicKey \in Keys
                 /\ cfg.JWTPrivateKey = env.privateFile
                 /\ cfg.JWTPublicKey = env.publicFile
    /\ (env.privateFile \notin Keys \/ env.publicFile \notin Keys) =>
          /\ ~cfg.up
          /\ \A w \in Workers : pc[w] = "idle"
          /\ resp = NoResp
          /\ users = <<>> /\ issued = <<>>
    /\ \A i \in 1..Len(issued) : issued[i].access.sig \in Keys

\* main has given up on a public key file that does not parse
C28_Witness ==
    /\ cfg.err # ""
    /\ ~cfg.up
    /\ env.privateFile \in Keys
    /\ env.publicFile = "corrupt"

\* C29: the interceptor does not send the refresh again for a refresh that
\* was answered 401: of the requests under way at most one is a refresh
C29_RefreshNotRetried ==
    \A i, j \in 1..Len(client.calls) :
        (client.calls[i].url = RefreshURL /\ client.calls[j].url = RefreshURL)
          => i = j

\* C30: a successful GenerateTokens inserts exactly one row into
\* refresh_tokens: it belongs to the user the call was made for, is not
\* revoked, expires one refresh lifetime after the call and holds the hash of
\* the token that is returned; every other row of refresh_tokens and every
\* row of users is left as it was
C30_GenerateTokensInsertsOneRow ==
    [][Len(issued') > Len(issued) =>
        /\ Len(issued') = Len(issued) + 1
        /\ Len(refresh_tokens') = Len(refresh_tokens) + 1
        /\ SubSeq(refresh_tokens', 1, Len(refresh_tokens)) = refresh_tokens
        /\ users' = users
        /\ LET row == refresh_tokens'[Len(refresh_tokens')]
           IN  /\ row.revoked_at = NULL
               /\ row.expires_at = now + JWTRefreshTokenExpiry
               /\ row.token_hash =
                      HashRefreshToken(issued'[Len(issued')].refresh)
               /\ \E w \in Workers :
                     /\ pc[w] \in {"rf_issue", "cb_issue"}
                     /\ pc'[w] # pc[w]
                     /\ row.user_id = local[w].user.ID]_vars

\* a refresh has issued a pair while the table held other rows: the row it
\* redeemed is revoked, the row it inserted is not
C30_Witness ==
    /\ Len(issued) >= 2
    /\ issued[Len(issued)].parent # 0
    /\ refresh_tokens[issued[Len(issued)].parent].revoked_at # NULL
    /\ refresh_tokens[Len(refresh_tokens)].revoked_at = NULL
    /\ refresh_tokens[Len(refresh_tokens)].expires_at
          = now + JWTRefreshTokenExpiry

\* C31: when a refresh succeeds, the presented record is already marked
\* revoked at the step that inserts the successor, the successor row belongs
\* to the owner of the presented record, and the email, name and role in the
\* new access token are those of the user row as the call finds it, whatever
\* the claims of the token issued with the presented record were
C31_RevokeThenIssueForOwner ==
    [][\A w \in Workers :
         (pc[w] = "rf_issue" /\ Len(issued') > Len(issued)) =>
            LET old == local[w].tokenID
                owner == refresh_tokens[old].user_id
                row == refresh_tokens'[Len(refresh_tokens')]
                tok == issued'[Len(issued')].access
            IN  /\ refresh_tokens[old].revoked_at # NULL
                /\ Len(refresh_tokens') = Len(refresh_tokens) + 1
                /\ row.user_id = owner
                /\ tok.sub = owner
                /\ tok.email = users[owner].email
                /\ tok.name = users[owner].name
                /\ tok.role = users[owner].role]_vars

\* a refresh has succeeded for a user who was renamed after the presented
\* token was issued: the new access token carries the new name
C31_Witness ==
    \E j, k \in 1..Len(issued) :
        /\ issued[j].parent # 0
        /\ RowOf(issued[k].refresh) = issued[j].parent
        /\ refresh_tokens[issued[j].parent].revoked_at # NULL
        /\ issued[j].access.sub = issued[k].access.sub
        /\ issued[j].access.name # issued[k].access.name
        /\ issued[j].access.name = users[issued[j].access.sub].name

\* C32: of a Logout and a refresh that present the same valid raw token at
\* the same time at most one takes effect: when a Logout has applied its
\* revocation to a record and returns, no pair was issued from that record
\* whose refresh token is redeemable
C32_LogoutBeatsRefresh ==
    (resp.op = "logout" /\ resp.matched # 0 /\ ~resp.fault) =>
        \A j \in Successors(resp.matched) :
            RowOf(issued[j].refresh) \notin ValidTokenRows

\* the record that was redeemed for record i (0: i was issued at a login)
ParentOf(i) ==
    LET js == { j \in 1..Len(issued) : RowOf(issued[j].refresh) = i }
    IN  IF js = {} THEN 0 ELSE issued[CHOOSE j \in js : TRUE].parent

\* the record issued at the login that record i descends from
RECURSIVE LoginOf(_)
LoginOf(i) == IF ParentOf(i) = 0 THEN i ELSE LoginOf(ParentOf(i))

\* the records that descend from the login of record i, that record included
Chain(i) == { k \in 1..Len(refresh_tokens) : LoginOf(k) = LoginOf(i) }

\* C33: with requests served one at a time, the refresh tokens that descend
\* from one login hold at most one redeemable (unrevoked, unexpired) record
C33_OneRedeemablePerLogin ==
    \A i, k \in ValidTokenRows : LoginOf(i) = LoginOf(k) => i = k

\* a login was refreshed twice: its chain has three records, the last one
\* redeemable
C33_Witness ==
    \E i \in 1..Len(refresh_tokens) :
        /\ Cardinality(Chain(i)) = 3
        /\ ParentOf(i) # 0
        /\ ParentOf(ParentOf(i)) # 0
        /\ Chain(i) \cap ValidTokenRows = {i}

\* C34: RevokeRefreshToken and RefreshAccessToken set revoked_at on the one
\* record whose hash matches the presented raw token and on nothing else:
\* in a step of either that changes a record, every other record is left as
\* it was, other sessions of the same user included, and of the matching
\* record only revoked_at changes
C34_RevokesOnlyTheMatch ==
    [][\A w \in Workers :
         (pc[w] \in {"rf_revoke", "lo_revoke"}
            /\ pc'[w] # pc[w]
            /\ refresh_tokens' # refresh_tokens) =>
            LET m == RowOf(local[w].raw)
            IN  /\ m # 0
                /\ Len(refresh_tokens') = Len(refresh_tokens)
                /\ \A i \in 1..Len(refresh_tokens) :
                      i # m => refresh_tokens'[i] = refresh_tokens[i]
                /\ refresh_tokens'[m] =
                      [refresh_tokens[m] EXCEPT !.revoked_at = now]
                /\ ValidTokenRows' = ValidTokenRows \ {m}]_vars

\* a user with two sessions has logged out of one: its record is revoked,
\* the record of the other session is redeemable
C34_Witness ==
    \E i, k \in 1..Len(refresh_tokens) :
        /\ i # k
        /\ refresh_tokens[i].user_id = refresh_tokens[k].user_id
        /\ ParentOf(i) = 0
        /\ ParentOf(k) = 0
        /\ Successors(i) = {}
        /\ refresh_tokens[i].revoked_at # NULL
        /\ k \in ValidTokenRows

\* C35: GoogleLogin accepts a redirect_uri exactly when it is one of the
\* allowed origins or an allowed origin followed by '/' and anything; without
\* redirect_uri it takes the first allowed origin. An accepted login is
\* answered with the redirect to Google and hands out one new state with the
\* target in the redirect cookie; any other is answered 400 and hands out
\* neither
C35_RedirectChecked ==
    [][(resp = NoResp /\ resp'.op = "login") =>
         LET uri == resp'.redirect_uri
             target == IF uri = <<>> THEN AllowedOrigins[1] ELSE uri
             Under(o) == /\ Len(target) > Len(o)
                         /\ \A n \in 1..Len(o) : target[n] = o[n]
                         /\ target[Len(o) + 1] = "/"
             allowed == \E i \in 1..Len(AllowedOrigins) :
                           target = AllowedOrigins[i] \/ Under(AllowedOrigins[i])
         IN  IF allowed
             THEN /\ resp'.status = 307
                  /\ Len(flows') = Len(flows) + 1
                  /\ SubSeq(flows', 1, Len(flows)) = flows
                  /\ flows'[Len(flows')].oauth_redirect = target
                  /\ \A i \in 1..Len(flows) :
                        flows[i].oauth_state # flows'[Len(flows')].oauth_state
             ELSE /\ resp'.status = 400
                  /\ flows' = flows]_vars

\* a login with a path under an allowed origin was accepted
C35_Witness ==
    /\ resp.op = "login"
    /\ resp.status = 307
    /\ resp.redirect_uri = <<"a", "/", "x">>
    /\ flows[Len(flows)].oauth_redirect = <<"a", "/", "x">>

\* C36: the final redirect of GoogleCallback, which carries the access
\* token, goes to the target that passed the check of GoogleLogin in the flow
\* the callback belongs to: the flow with the state of the callback holds
\* that target as its oauth_redirect
C36_TokenGoesToCheckedTarget ==
    [][\A w \in Workers :
         (pc[w] = "cb_log" /\ resp'.op = "callback" /\ resp'.status = 307) =>
            \E i \in 1..Len(flows) :
                /\ flows[i].oauth_state = local[w].state
                /\ resp'.location =
                      flows[i].oauth_redirect \o <<"/auth/callback">>]_vars

\* the steps of a login: the arrival of a callback and the statements of its
\* handler
LoginStep ==
    \E w \in Workers :
        /\ pc'[w] # pc[w]
        /\ \/ Serving(w) = "callback"
           \/ pc[w] = "idle" /\ pc'[w] \in {"cb_insert", "cb_update"}

\* C37: a login leaves every user that exists who it was and as enabled as
\* it was: no step of a login changes the id, the email, the external
\* subject id, the active flag or deleted_at of an existing user, so that a
\* deactivated user is still deactivated after logging in
C37_LoginKeepsIdentityAndFlags ==
    [][LoginStep =>
         /\ Len(users') >= Len(users)
         /\ \A u \in 1..Len(users) :
               /\ users'[u].email = users[u].email
               /\ users'[u].google_id = users[u].google_id
               /\ users'[u].is_active = users[u].is_active
               /\ users'[u].deleted_at = users[u].deleted_at]_vars

\* a deactivated user logged in: the user found by the lookup was written
\* back and is still deactivated
C37_Witness ==
    /\ resp.op = "callback"
    /\ resp.err = "User account is inactive"
    /\ \E u \in 1..Len(users) :
          ~users[u].is_active /\ users[u].deleted_at = NULL

\* the soft-deleted users with the external identity gid
DeletedWithIdentity(gid) ==
    { u \in 1..Len(users) :
        users[u].google_id = gid /\ users[u].deleted_at # NULL }

\* C38: a login with the external identity of a soft-deleted user fails: the
\* step that follows the lookup ends the request with an error, and no step
\* of the login issues a token, adds a user row or changes a user row
C38_DeletedIdentityCannotLogin ==
    [][\A w \in Workers :
         (/\ Serving(w) = "callback"
          /\ pc'[w] # pc[w]
          /\ DeletedWithIdentity(local[w].info.ID) # {}) =>
            /\ pc'[w] = "idle"
            /\ resp'.op = "callback"
            /\ resp'.status = 500
            /\ resp'.access = NoToken
            /\ resp'.refresh = 0
            /\ users' = users
            /\ refresh_tokens' = refresh_tokens
            /\ issued' = issued]_vars

\* a soft-deleted user signs in again: the lookup has found no user and the
\* insert is about to run
C38_Witness ==
    \E w \in Workers :
        /\ pc[w] = "cb_insert"
        /\ DeletedWithIdentity(local[w].info.ID) # {}
        /\ \E i \in 1..Len(issued) :
              users[issued[i].access.sub].deleted_at # NULL

\* C39: the interceptor sends a request that was answered 401 again at most
\* once: no request is sent more than twice, and when the request that was
\* sent again is answered 401 too, it is rejected to its caller and no
\* further refresh is sent for it
C39_ResentAtMostOnce ==
    [][/\ \A i \in 1..Len(client.calls') : client.calls'[i].sends <= 2
       /\ (/\ client.calls # <<>>
           /\ client.settled = "none"
           /\ Top.state = "sent"
           /\ Top.sends = 2
           /\ client.calls' # client.calls
           /\ client.status' = 401) =>
              /\ client.calls' = Pop
              /\ client.settled' = "rejected"
              /\ client.last' = Top.url]_vars

\* an API call was answered 401, the refresh succeeded, the call was sent
\* again with the new token and was answered 401 again
C39_Witness ==
    /\ client.calls = <<>>
    /\ client.settled = "rejected"
    /\ client.status = 401
    /\ client.last \in ClientURLs
    /\ client.minted > 1
    /\ client.access_token = client.minted

\* whether a response of ListUsers is one whose count and query ran
Listed == resp.op = "list" /\ resp.err # "Failed to count users"

\* C40: ListUsers takes a page below 1 as 1 and a page_size outside 1..100
\* as 20, queries with the offset (page - 1) * page_size, and reports as
\* total_pages the least number of pages of page_size that hold total users
\* (0 when there are none)
C40_PagingNormalised ==
    Listed =>
        LET l == resp.list
            page == IF l.page_in < 1 THEN 1 ELSE l.page_in
            size == IF l.page_size_in \in 1..100 THEN l.page_size_in ELSE 20
        IN  /\ l.offset = (page - 1) * size
            /\ resp.status = 200 =>
                  /\ l.Page = page
                  /\ l.PageSize = size
                  /\ l.TotalPages * size >= l.Total
                  /\ (l.TotalPages - 1) * size < l.Total
                  /\ l.Total = 0 => l.TotalPages = 0

====
